---- MODULE Spec2Model ----
(***************************************************************************)
(* niworkflows.interfaces.norm: SpatialNormalization, an interface that    *)
(* resolves the fixed/moving images and masks of a registration job        *)
(* (_get_ants_args, on top of mask and create_cfm), estimates an initial   *)
(* transform and then tries the settings files one after the other until   *)
(* one registration returns exit status zero (_run_interface).             *)
(***************************************************************************)
EXTENDS Integers, Sequences, FiniteSets, TLC

\* Bounds of the model.
MaxPresets == 2
MaxRuns == 2
NVox == 2

\* np.uint8 arithmetic is modulo 2^8.
UInt8Mod == 256

VARIABLES
    inputs,            \* self.inputs: the traited inputs of the interface
    disk,              \* image files: path -> file
    diag_files,        \* names of the stream files written by _write_outputs
    command_txt,       \* content of command.txt
    pc,                \* position inside _run_interface
    settings_files,    \* local: the list returned by _get_settings
    idx,               \* position of the for loop in settings_files
    ants_args,         \* local: the dict returned by _get_ants_args
    norm,              \* self.norm
    retry,             \* self.retry
    reference_image,   \* self._reference_image
    calls,             \* engine invocations of the current run, in order
    err,               \* the exception that ended the current run
    result,            \* the outputs of the current run (_list_outputs)
    runs,              \* number of runs of this interface object so far
    templateflow,      \* what the template collaborators answer, once asked
    written,           \* the stream files written by the current run
    reg_streams        \* the streams the registration engine leaves when it fails

vars == <<inputs, disk, diag_files, command_txt, pc, settings_files, idx,
          ants_args, norm, retry, reference_image, calls, err, result, runs,
          templateflow, written, reg_streams>>

----------------------------------------------------------------------------
\* Values

Undefined == "<undefined>"      \* nipype's Undefined
None == "<None>"                \* Python's None
Absent == "<absent>"            \* a key that is not in the args dict
NoErr == "none"

Vox == 1..NVox

Ones == [i \in Vox |-> 1]
ImgData == [i \in Vox |-> i + 2]
HalfMask == [i \in Vox |-> IF i = 1 THEN 1 ELSE 0]
NonBinaryMask == [i \in Vox |-> IF i = 1 THEN 2 ELSE 1]
LesionData == [i \in Vox |-> IF i = NVox THEN 1 ELSE 0]

Reverse(a) == [i \in Vox |-> a[NVox + 1 - i]]

Made(fn, in_file, aux, global_mask) ==
    [fn |-> fn, in_file |-> in_file, aux |-> aux, global_mask |-> global_mask]

InputFile(data, canonical) ==
    [exists |-> TRUE, data |-> data, canonical |-> canonical,
     made |-> Made("input", None, None, FALSE)]

NoFile ==
    [exists |-> FALSE, data |-> <<>>, canonical |-> TRUE,
     made |-> Made("none", None, None, FALSE)]

Exists(d, p) == p \in DOMAIN d /\ d[p].exists

\* fname_presuffix(in_file, suffix='_cfm', newpath=os.getcwd())
CfmPath(in_file) == in_file \o "_cfm"

InputPaths ==
    {"moving_image", "moving_mask", "reference_image", "reference_mask", "lesion_mask"}
TemplatePaths == {"tpl_ref", "tpl_desc-brain_mask", "tpl_label-brain_mask"}
Paths ==
    InputPaths \cup TemplatePaths
    \cup {"moving_masked", "fixed_masked"}
    \cup {CfmPath(p) : p \in InputPaths \cup TemplatePaths}

----------------------------------------------------------------------------
\* Mask algebra

\* nb.as_closest_canonical(img): the data in canonical voxel order
as_closest_canonical(f) == IF f.canonical THEN f.data ELSE Reverse(f.data)

\* Mutant of MaskedData: the voxels inside the mask are the ones set to zero.
MaskedDataInverted(in_data, mask_data) ==
    [i \in Vox |-> IF mask_data[i] = 0 THEN in_data[i] ELSE 0]

\* data[mask == 0] = 0
MaskedData(in_data, mask_data) ==
    [i \in Vox |-> IF mask_data[i] = 0 THEN 0 ELSE in_data[i]]

\* mask(in_file, mask_file, new_name): [err, disk, path]
mask(d, in_file, mask_file, new_name) ==
    IF ~Exists(d, in_file) \/ ~Exists(d, mask_file)
    THEN [err |-> "FileNotFoundError", disk |-> d, path |-> None]
    ELSE [err |-> NoErr,
          disk |-> [d EXCEPT ![new_name] =
                      [exists |-> TRUE,
                       data |-> MaskedData(d[in_file].data, d[mask_file].data),
                       canonical |-> d[in_file].canonical,
                       made |-> Made("mask", in_file, mask_file, FALSE)]],
          path |-> new_name]

\* np.fmax(x, 0)
Fmax0(x) == IF x < 0 THEN 0 ELSE x

\* np.fmax(data - lm_img.dataobj, 0) on unsigned 8-bit arrays
SubtractLesion(data, lm) == [i \in Vox |-> Fmax0((data[i] - lm[i]) % UInt8Mod)]

\* Mutant of IsBinary: the content of the base mask is not looked at.
IsBinaryUnchecked(data) == TRUE

\* set(np.unique(data)) - {0, 1}
IsBinary(data) == \A i \in Vox : data[i] \in {0, 1}

\* create_cfm(in_file, lesion_mask, global_mask): [err, disk, path]
create_cfm(d, in_file, lesion_mask, global_mask) ==
    IF ~Exists(d, in_file)
    THEN [err |-> "FileNotFoundError", disk |-> d, path |-> None]
    ELSE
    LET base == IF global_mask THEN Ones ELSE d[in_file].data IN
    IF ~IsBinary(base)
    THEN [err |-> "ValueError", disk |-> d, path |-> None]
    ELSE
    LET data == IF lesion_mask # None
                THEN SubtractLesion(base, as_closest_canonical(d[lesion_mask]))
                ELSE base
    IN  [err |-> NoErr,
         disk |-> [d EXCEPT ![CfmPath(in_file)] =
                     [exists |-> TRUE, data |-> data,
                      canonical |-> d[in_file].canonical,
                      made |-> Made("create_cfm", in_file, lesion_mask, global_mask)]],
         path |-> CfmPath(in_file)]

----------------------------------------------------------------------------
\* Input resolution: _get_ants_args.  A resolution state s carries the args
\* dict built so far, the disk, self._reference_image and the exception in
\* flight (statements after a raise do not run).

SetArg(s, key, val) ==
    IF s.err # NoErr THEN s ELSE [s EXCEPT !.args[key] = val]

ArgFromMask(s, key, in_file, mask_file, new_name) ==
    IF s.err # NoErr THEN s
    ELSE LET r == mask(s.disk, in_file, mask_file, new_name) IN
         IF r.err # NoErr THEN [s EXCEPT !.err = r.err]
         ELSE [s EXCEPT !.disk = r.disk, !.args[key] = r.path]

ArgFromCfm(s, key, in_file, lesion_mask, global_mask) ==
    IF s.err # NoErr THEN s
    ELSE LET r == create_cfm(s.disk, in_file, lesion_mask, global_mask) IN
         IF r.err # NoErr THEN [s EXCEPT !.err = r.err]
         ELSE [s EXCEPT !.disk = r.disk, !.args[key] = r.path]

InitialArgs(inp) ==
    [moving_image |-> inp.moving_image,
     num_threads |-> inp.num_threads,
     float |-> inp.float,
     initial_moving_transform |-> inp.initial_moving_transform,
     fixed_image |-> Absent,
     moving_image_masks |-> Absent,
     fixed_image_masks |-> Absent]

EmptyArgs ==
    [moving_image |-> Absent, num_threads |-> 0, float |-> FALSE,
     initial_moving_transform |-> Absent, fixed_image |-> Absent,
     moving_image_masks |-> Absent, fixed_image_masks |-> Absent]

NoNorm == [from_file |-> 0, args |-> EmptyArgs, use_histogram_matching |-> Undefined]
\* command.txt before any command line was saved to it
NoCommandFile == [from_file |-> 0, args |-> EmptyArgs, use_histogram_matching |-> Undefined]
NoResult == [reference_image |-> None, from_file |-> 0]

Raised(kind, retries) == [kind |-> kind, retries |-> retries]
NoException == Raised(NoErr, 0)

\* Mutant of MovingCfmGlobal: the moving-side mask is always a global one.
MovingCfmAlwaysGlobal(inp) == TRUE

\* line 305: global_mask=self.inputs.explicit_masking
MovingCfmGlobal(inp) == inp.explicit_masking

MovingSide(inp, s) ==
    IF inp.moving_mask # Undefined
    THEN LET s1 == IF inp.explicit_masking
                   THEN ArgFromMask(s, "moving_image", inp.moving_image,
                                    inp.moving_mask, "moving_masked")
                   ELSE SetArg(s, "moving_image_masks", inp.moving_mask)
         IN  IF inp.lesion_mask # Undefined
             THEN ArgFromCfm(s1, "moving_image_masks", inp.moving_mask,
                             inp.lesion_mask, MovingCfmGlobal(inp))
             ELSE s1
    ELSE IF inp.lesion_mask # Undefined
    THEN ArgFromCfm(s, "moving_image_masks", inp.moving_image, inp.lesion_mask, TRUE)
    ELSE s

\* Mutant of ReferenceLesionMask: the lesion is subtracted on the reference side too.
ReferenceLesionMaskSubtracted(inp) == inp.lesion_mask

\* lines 371, 388, 450: lesion_mask=None
ReferenceLesionMask(inp) == None

\* Mutant of ExplicitReference: the fixed image is set only when the reference
\* image is masked.
ExplicitReferenceFixedOnlyMasked(inp, s) ==
    LET s1 == [s EXCEPT !.ref = IF s.err = NoErr THEN inp.reference_image ELSE s.ref]
    IN  IF inp.reference_mask # Undefined
        THEN IF inp.explicit_masking
             THEN LET s2 == ArgFromMask(s1, "fixed_image", inp.reference_image,
                                        inp.reference_mask, "fixed_masked")
                  IN  IF inp.lesion_mask # Undefined
                      THEN ArgFromCfm(s2, "fixed_image_masks", inp.reference_mask,
                                      ReferenceLesionMask(inp), TRUE)
                      ELSE s2
             ELSE SetArg(s1, "fixed_image_masks", inp.reference_mask)
        ELSE IF inp.lesion_mask # Undefined
        THEN ArgFromCfm(s1, "fixed_image_masks", inp.reference_image,
                        ReferenceLesionMask(inp), TRUE)
        ELSE s1

ExplicitReference(inp, s) ==
    LET s1 == [SetArg(s, "fixed_image", inp.reference_image)
                 EXCEPT !.ref = IF s.err = NoErr THEN inp.reference_image ELSE s.ref]
    IN  IF inp.reference_mask # Undefined
        THEN IF inp.explicit_masking
             THEN LET s2 == ArgFromMask(s1, "fixed_image", inp.reference_image,
                                        inp.reference_mask, "fixed_masked")
                  IN  IF inp.lesion_mask # Undefined
                      THEN ArgFromCfm(s2, "fixed_image_masks", inp.reference_mask,
                                      ReferenceLesionMask(inp), TRUE)
                      ELSE s2
             ELSE SetArg(s1, "fixed_image_masks", inp.reference_mask)
        ELSE IF inp.lesion_mask # Undefined
        THEN ArgFromCfm(s1, "fixed_image_masks", inp.reference_image,
                        ReferenceLesionMask(inp), TRUE)
        ELSE s1

\* What the template collaborators may answer: the path get_template_specs
\* resolves, and which of the two brain-mask lookups finds a file.
TemplateAnswers ==
    {[ref_template |-> "tpl_missing", brain |-> "none"]}
    \cup [ref_template : {"tpl_ref"}, brain : {"desc", "label", "none"}]
NotAsked == [ref_template |-> None, brain |-> None]

\* The template is looked up when no reference image is given and the
\* orientation is supported.
AsksTemplate(inp) == inp.reference_image = Undefined /\ inp.orientation # "LAS"

\* utils.misc.get_template_specs(...)[0]
get_template_specs(tf) == tf.ref_template

\* Mutant of RefMask: only the label='brain' lookup is made.
RefMaskLabelOnly(tf) == IF tf.brain = "none" THEN "[]" ELSE "tpl_label-brain_mask"

\* str(get_template(desc='brain') or get_template(label='brain'))
RefMask(tf) ==
    CASE tf.brain = "desc" -> "tpl_desc-brain_mask"
      [] tf.brain = "label" -> "tpl_label-brain_mask"
      [] OTHER -> "[]"

\* Mutant of PopFixedMask: the template's brain mask stays in the args.
PopFixedMaskForgotten(s) == s

\* line 443: args.pop('fixed_image_masks', None)
PopFixedMask(s) == SetArg(s, "fixed_image_masks", Absent)

\* The keys a template specification may hold, and the empty dict
TemplateSpecKeys == {"cohort", "res", "suffix", "desc"}
EmptySpec == [k \in TemplateSpecKeys |-> Absent]

\* What the user may pass as template_spec: nothing, or a dict
TemplateSpecChoices ==
    {[defined |-> FALSE, dict |-> EmptySpec],
     [defined |-> TRUE, dict |-> [EmptySpec EXCEPT !["cohort"] = "1"]]}

\* lines 399-411: template_spec is self.inputs.template_spec itself when
\* that is defined; the res, suffix and desc keys are set on that object.
\* The value of self.inputs.template_spec afterwards.
TemplateSpecFilled(inp) ==
    IF ~inp.template_spec.defined THEN inp.template_spec
    ELSE LET spec == IF inp.template_resolution # Undefined
                     THEN [inp.template_spec.dict EXCEPT !["res"] = inp.template_resolution]
                     ELSE inp.template_spec.dict
         IN  [defined |-> TRUE,
              dict |-> [spec EXCEPT !["suffix"] = inp.reference, !["desc"] = None]]

TemplateReference(inp, s, tf) ==
    IF s.err # NoErr THEN s
    ELSE IF inp.orientation = "LAS" THEN [s EXCEPT !.err = "NotImplementedError"]
    ELSE
    LET ref_template == get_template_specs(tf)
        s1 == [s EXCEPT !.ref = ref_template, !.template_spec = TemplateSpecFilled(inp)]
    IN  IF ~Exists(s1.disk, ref_template) THEN [s1 EXCEPT !.err = "ValueError"]
        ELSE
        LET ref_mask == RefMask(tf)
            s2 == SetArg(SetArg(s1, "fixed_image", ref_template),
                         "fixed_image_masks", ref_mask)
        IN  IF inp.explicit_masking
            THEN LET s3 == PopFixedMask(ArgFromMask(s2, "fixed_image", ref_template,
                                                    ref_mask, "fixed_masked"))
                 IN  IF inp.lesion_mask # Undefined
                     THEN ArgFromCfm(s3, "fixed_image_masks", ref_mask,
                                     ReferenceLesionMask(inp), TRUE)
                     ELSE s3
            ELSE s2

_get_ants_args(inp, d, ref, tf) ==
    LET s0 == [args |-> InitialArgs(inp), disk |-> d, ref |-> ref, err |-> NoErr,
               template_spec |-> inp.template_spec]
        s1 == MovingSide(inp, s0)
    IN  IF inp.reference_image # Undefined
        THEN ExplicitReference(inp, s1)
        ELSE TemplateReference(inp, s1, tf)

----------------------------------------------------------------------------
\* Preset enumeration: _get_settings

\* Settings files are numbered in the lexicographic order of their names.
AllPresets == [i \in 1..MaxPresets |-> i]

\* The values of the moving and flavor inputs
Modalities == {"T1w", "boldref"}
Flavors == {"precise", "testing", "fast"}

\* self.inputs.moving.lower()
Lower(m) == IF m = "T1w" THEN "t1w" ELSE m

\* The settings files of the data directory, '<moving>-mni_registration_
\* <flavor>_<nnn>.json', in the lexicographic order of their names: one
\* file for three of the pairs, MaxPresets files for t1w/precise, none for
\* boldref/fast.
DataDir ==
    [i \in 1..(MaxPresets + 4) |->
        CASE i = 1 -> [moving |-> "boldref", flavor |-> "precise"]
          [] i = 2 -> [moving |-> "boldref", flavor |-> "testing"]
          [] i = 3 -> [moving |-> "t1w", flavor |-> "fast"]
          [] i = MaxPresets + 4 -> [moving |-> "t1w", flavor |-> "testing"]
          [] OTHER -> [moving |-> "t1w", flavor |-> "precise"]]

\* data_dir.glob(f'{moving}-mni_registration_{flavor}_*.json')
Glob(moving, flavor) ==
    {i \in DOMAIN DataDir : DataDir[i] = [moving |-> moving, flavor |-> flavor]}

\* The files of the data directory that match the job's modality and flavor
BuiltinPresets(inp) == Glob(Lower(inp.moving), inp.flavor)

\* sorted([...])
RECURSIVE Sorted(_)
Sorted(S) ==
    IF S = {} THEN <<>>
    ELSE LET m == CHOOSE x \in S : \A y \in S : x <= y
         IN  <<m>> \o Sorted(S \ {m})

\* What the user may pass as settings: nothing, or a list of files, in
\* any order
SettingsChoices ==
    {[defined |-> FALSE, files |-> <<>>]}
    \cup {[defined |-> TRUE, files |-> SubSeq(AllPresets, 1, n)] : n \in 0..MaxPresets}
    \cup {[defined |-> TRUE, files |-> [i \in 1..MaxPresets |-> MaxPresets + 1 - i]]}

\* The moving and flavor inputs are read only when no settings are given:
\* they vary in those jobs and keep their defaults in the others.
JobKinds(st) ==
    IF st.defined THEN {<<"T1w", "precise">>} ELSE Modalities \X Flavors

\* The template_spec input is read only when no reference image is given:
\* it varies in those jobs and is left undefined in the others.
JobTemplateSpecs(ri) ==
    IF ri.exists THEN {ts \in TemplateSpecChoices : ~ts.defined} ELSE TemplateSpecChoices

\* Mutant of _get_settings: the user's list is put in lexicographic order too.
_get_settings_sorted(inp) ==
    IF inp.settings.defined
    THEN Sorted({inp.settings.files[i] : i \in 1..Len(inp.settings.files)})
    ELSE Sorted(BuiltinPresets(inp))

_get_settings(inp) ==
    IF inp.settings.defined THEN inp.settings.files ELSE Sorted(BuiltinPresets(inp))

----------------------------------------------------------------------------
\* The interface object after __init__, in a working directory that holds
\* the job's input files.

\* The non-empty streams a finished process may leave in its runtime.
\* (The streams of a successful registration are never read: it leaves both.)
AllStreams == {"stdout", "stderr"}
StreamChoices == {{}, AllStreams}
FailCodes == {1}

MovingMaskChoices == {NoFile, InputFile(HalfMask, TRUE), InputFile(NonBinaryMask, TRUE)}
ReferenceMaskChoices == {NoFile, InputFile(HalfMask, TRUE)}
ReferenceChoices == {NoFile, InputFile(ImgData, TRUE)}
LesionChoices == {NoFile, InputFile(LesionData, TRUE), InputFile(LesionData, FALSE)}

PathOf(f, p) == IF f.exists THEN p ELSE Undefined

InitialDisk(mm, ri, rm, lm) ==
    [p \in Paths |->
        CASE p = "moving_image" -> InputFile(ImgData, TRUE)
          [] p = "moving_mask" -> mm
          [] p = "reference_image" -> ri
          [] p = "reference_mask" -> rm
          [] p = "lesion_mask" -> lm
          [] p = "tpl_ref" -> InputFile(ImgData, TRUE)
          [] p \in {"tpl_desc-brain_mask", "tpl_label-brain_mask"} -> InputFile(HalfMask, TRUE)
          [] OTHER -> NoFile]

Init ==
    \E mm \in MovingMaskChoices, ri \in ReferenceChoices, rm \in ReferenceMaskChoices,
       lm \in LesionChoices, em \in BOOLEAN, o \in {"RAS", "LAS"},
       imt \in {Undefined, "initial_moving_transform"}, st \in SettingsChoices :
      \E job \in JobKinds(st), ts \in JobTemplateSpecs(ri) :
        /\ inputs = [moving_image |-> "moving_image",
                     moving |-> job[1],
                     flavor |-> job[2],
                     moving_mask |-> PathOf(mm, "moving_mask"),
                     reference_image |-> PathOf(ri, "reference_image"),
                     reference_mask |-> PathOf(rm, "reference_mask"),
                     lesion_mask |-> PathOf(lm, "lesion_mask"),
                     explicit_masking |-> em,
                     orientation |-> o,
                     initial_moving_transform |-> imt,
                     settings |-> st,
                     template_spec |-> ts,
                     template_resolution |-> Undefined,
                     reference |-> "T1w",
                     use_histogram_matching |-> Undefined,
                     num_threads |-> 1,
                     float |-> FALSE]
        /\ disk = InitialDisk(mm, ri, rm, lm)
    /\ diag_files = {}
    /\ command_txt = NoCommandFile
    /\ pc = "start"
    /\ settings_files = <<>>
    /\ idx = 1
    /\ ants_args = EmptyArgs
    /\ norm = NoNorm
    /\ retry = 1
    /\ reference_image = None
    /\ calls = <<>>
    /\ err = NoException
    /\ result = NoResult
    /\ runs = 1
    /\ templateflow = NotAsked
    /\ written = {}
    /\ reg_streams \in StreamChoices

----------------------------------------------------------------------------
\* _run_interface

\* Mutant of AfterResolve: an error of input resolution is only raised after
\* the engine was started.
AfterResolveDefersError(e, inp) ==
    IF inp.initial_moving_transform = Undefined THEN "init" ELSE "loop"

\* lines 173-175: an exception of _get_ants_args leaves _run_interface at
\* once; otherwise the initial transform is estimated unless the job has one
AfterResolve(e, inp) ==
    IF e # NoErr THEN "raised"
    ELSE IF inp.initial_moving_transform = Undefined THEN "init" ELSE "loop"

\* lines 172-173: the settings list and the argument bundle
Resolve ==
    /\ pc = "start"
    /\ \E tf \in TemplateAnswers :
         LET s == _get_ants_args(inputs, disk, reference_image, tf) IN
         /\ templateflow \in {NotAsked, tf}
         /\ templateflow' = IF AsksTemplate(inputs) THEN tf ELSE templateflow
         /\ inputs' = [inputs EXCEPT !.template_spec = s.template_spec]
         /\ disk' = s.disk
         /\ reference_image' = s.ref
         /\ settings_files' = _get_settings(inputs)
         /\ pc' = AfterResolve(s.err, inputs)
         /\ IF s.err # NoErr
            THEN /\ err' = Raised(s.err, 0)
                 /\ ants_args' = ants_args
            ELSE /\ err' = err
                 /\ ants_args' = s.args
    /\ UNCHANGED <<diag_files, command_txt, idx, norm, retry, calls, result, runs,
                   written, reg_streams>>

\* f'{self.retry:04d}'
Digit(d) == <<"0", "1", "2", "3", "4", "5", "6", "7", "8", "9">>[d + 1]
Pad4(n) ==
    Digit((n \div 1000) % 10) \o Digit((n \div 100) % 10)
    \o Digit((n \div 10) % 10) \o Digit(n % 10)

\* _write_outputs(runtime, out_fname): the files written, one per non-empty stream
_write_outputs(streams, out_fname) == {name \o out_fname : name \in streams}


Call(tool, from_file, a, returncode, streams) ==
    [tool |-> tool, from_file |-> from_file, fixed_image |-> a.fixed_image,
     moving_image |-> a.moving_image, fixed_image_masks |-> a.fixed_image_masks,
     moving_image_masks |-> a.moving_image_masks,
     initial_moving_transform |-> a.initial_moving_transform,
     num_threads |-> a.num_threads, float |-> a.float, returncode |-> returncode,
     streams |-> streams]     \* the streams a failed registration left

\* Mutant of InitializerArgs: the initializer gets the two images swapped.
InitializerArgsSwapped(a) ==
    [EmptyArgs EXCEPT !.fixed_image = a.moving_image,
                      !.moving_image = a.fixed_image,
                      !.num_threads = a.num_threads]

\* AffineInitializer(fixed_image=..., moving_image=..., num_threads=...)
InitializerArgs(a) ==
    [EmptyArgs EXCEPT !.fixed_image = a.fixed_image,
                      !.moving_image = a.moving_image,
                      !.num_threads = a.num_threads]

\* lines 175-193: the initial transform, when the job supplies none
EstimateInitialTransform ==
    /\ pc = "init"
    /\ \E ok \in BOOLEAN, streams \in StreamChoices :
         IF ok
         THEN /\ calls' = Append(calls, Call("AffineInitializer", 0, InitializerArgs(ants_args), 0, {}))
              /\ diag_files' = diag_files \cup _write_outputs(streams, ".nipype-init")
              /\ written' = written \cup _write_outputs(streams, ".nipype-init")
              /\ ants_args' = [ants_args EXCEPT !.initial_moving_transform = "init_out_file"]
              /\ pc' = "loop"
              /\ err' = err
         ELSE /\ calls' = Append(calls, Call("AffineInitializer", 0, InitializerArgs(ants_args), 1, {}))
              /\ pc' = "raised"
              /\ err' = Raised("InitializerError", 0)
              /\ UNCHANGED <<diag_files, written, ants_args>>
    /\ UNCHANGED <<inputs, disk, command_txt, settings_files, idx, norm, retry,
                   reference_image, result, runs, templateflow, reg_streams>>

\* Registration(from_file=..., **ants_args): File(exists=True) traits
ArgFilesExist(a) ==
    \A k \in {"fixed_image", "moving_image", "fixed_image_masks", "moving_image_masks"} :
        a[k] \in {Absent, Undefined} \/ Exists(disk, a[k])

\* Mutant of Construct: the command line is not saved to command.txt.
ConstructNoCommandFile ==
    /\ pc = "loop"
    /\ idx <= Len(settings_files)
    /\ IF ArgFilesExist(ants_args)
       THEN /\ norm' = [from_file |-> settings_files[idx], args |-> ants_args,
                        use_histogram_matching |-> inputs.use_histogram_matching]
            /\ pc' = "run"
            /\ err' = err
       ELSE /\ pc' = "raised"
            /\ err' = Raised("TraitError", 0)
            /\ norm' = norm
    /\ UNCHANGED <<inputs, disk, diag_files, command_txt, settings_files, idx, ants_args,
                   retry, reference_image, calls, result, runs, templateflow, written,
                   reg_streams>>

\* lines 196-217: configure the run of the next settings file, save its command line
Construct ==
    /\ pc = "loop"
    /\ idx <= Len(settings_files)
    /\ IF ArgFilesExist(ants_args)
       THEN LET n == [from_file |-> settings_files[idx], args |-> ants_args,
                      use_histogram_matching |-> inputs.use_histogram_matching]
            IN  /\ norm' = n
                /\ command_txt' = n
                /\ pc' = "run"
                /\ err' = err
       ELSE /\ pc' = "raised"
            /\ err' = Raised("TraitError", 0)
            /\ UNCHANGED <<norm, command_txt>>
    /\ UNCHANGED <<inputs, disk, diag_files, settings_files, idx, ants_args, retry,
                   reference_image, calls, result, runs, templateflow, written,
                   reg_streams>>

\* Mutant of _list_outputs: the fixed image handed to the engine is reported.
_list_outputs_fixed_image ==
    [reference_image |-> ants_args.fixed_image, from_file |-> norm.from_file]

\* _list_outputs
_list_outputs == [reference_image |-> reference_image, from_file |-> norm.from_file]

\* Mutant of RunSucceeds: no return, the loop goes on to the next settings file.
RunSucceedsNoReturn ==
    /\ pc = "run"
    /\ calls' = Append(calls, Call("Registration", norm.from_file, norm.args, 0, AllStreams))
    /\ pc' = "loop"
    /\ idx' = idx + 1
    /\ UNCHANGED <<inputs, disk, diag_files, command_txt, settings_files, ants_args,
                   norm, retry, reference_image, err, result, runs, templateflow, written,
                   reg_streams>>

\* lines 220, 228-233: the registration returns exit status zero
RunSucceeds ==
    /\ pc = "run"
    /\ calls' = Append(calls, Call("Registration", norm.from_file, norm.args, 0, AllStreams))
    /\ pc' = "returned"
    /\ result' = _list_outputs
    /\ UNCHANGED <<inputs, disk, diag_files, command_txt, settings_files, idx, ants_args,
                   norm, retry, reference_image, err, runs, templateflow, written,
                   reg_streams>>

\* The retry counter after a failed attempt
NextRetry(r) == r + 1

\* The tag of a failed attempt's stream files
RetryTag(r) == ".nipype-" \o Pad4(r)

\* Mutant of RunFails: after a failure the next attempts run without masks.
RunFailsDropsMasks ==
    /\ pc = "run"
    /\ \E code \in FailCodes :
         calls' = Append(calls, Call("Registration", norm.from_file, norm.args, code, reg_streams))
    /\ diag_files' = diag_files \cup _write_outputs(reg_streams, RetryTag(retry))
    /\ written' = written \cup _write_outputs(reg_streams, RetryTag(retry))
    /\ retry' = NextRetry(retry)
    /\ idx' = idx + 1
    /\ pc' = "loop"
    /\ ants_args' = [ants_args EXCEPT !.moving_image_masks = Absent,
                                      !.fixed_image_masks = Absent]
    /\ UNCHANGED <<inputs, disk, command_txt, settings_files, norm,
                   reference_image, err, result, runs, templateflow, reg_streams>>

\* lines 220-227, 235: the registration returns a non-zero exit status
RunFails ==
    /\ pc = "run"
    /\ \E code \in FailCodes :
         calls' = Append(calls, Call("Registration", norm.from_file, norm.args, code, reg_streams))
    /\ diag_files' = diag_files \cup _write_outputs(reg_streams, RetryTag(retry))
    /\ written' = written \cup _write_outputs(reg_streams, RetryTag(retry))
    /\ retry' = NextRetry(retry)
    /\ idx' = idx + 1
    /\ pc' = "loop"
    /\ UNCHANGED <<inputs, disk, command_txt, settings_files, ants_args, norm,
                   reference_image, err, result, runs, templateflow, reg_streams>>

\* The number the exhaustion error reports
ReportedRetries(r) == r - 1

\* Mutant of Exhausted: the method returns instead of raising.
ExhaustedReturns ==
    /\ pc = "loop"
    /\ idx > Len(settings_files)
    /\ pc' = "returned"
    /\ result' = [reference_image |-> reference_image, from_file |-> norm.from_file]
    /\ UNCHANGED <<inputs, disk, diag_files, command_txt, settings_files, idx, ants_args,
                   norm, retry, reference_image, calls, err, runs, templateflow, written,
                   reg_streams>>

\* line 238: every settings file was tried
Exhausted ==
    /\ pc = "loop"
    /\ idx > Len(settings_files)
    /\ pc' = "raised"
    /\ err' = Raised("RuntimeError", ReportedRetries(retry))
    /\ UNCHANGED <<inputs, disk, diag_files, command_txt, settings_files, idx, ants_args,
                   norm, retry, reference_image, calls, result, runs, templateflow,
                   written, reg_streams>>

\* The same interface object is run again (BaseInterface.run calls _run_interface)
Rerun ==
    /\ pc \in {"returned", "raised"}
    /\ runs < MaxRuns
    /\ runs' = runs + 1
    /\ pc' = "start"
    /\ settings_files' = <<>>
    /\ idx' = 1
    /\ ants_args' = EmptyArgs
    /\ calls' = <<>>
    /\ err' = NoException
    /\ result' = NoResult
    /\ written' = {}
    /\ UNCHANGED <<inputs, disk, diag_files, command_txt, norm, retry, reference_image,
                   templateflow, reg_streams>>

Next ==
    \/ Resolve
    \/ EstimateInitialTransform
    \/ Construct
    \/ RunSucceeds
    \/ RunFails
    \/ Exhausted
    \/ Rerun

Spec == Init /\ [][Next]_vars

\* A step of a run after input resolution.  _run_interface is sequential
\* code and its calls of the initializer and of the registration block
\* until the process has ended: a run that can take a step eventually takes
\* one.  (Running the object again is up to the caller.)
RunStep ==
    \/ EstimateInitialTransform
    \/ Construct
    \/ RunSucceeds
    \/ RunFails
    \/ Exhausted

\* Input resolution is a computation without loops: a run does not stay at
\* its start for ever.  (Resolve is enabled exactly when pc = "start" and
\* always leaves it, so this is weak fairness of Resolve.)
ResolveReturns == []<>(pc # "start")

\* The jobs whose runs are followed to their end: every settings list, every
\* combination of optional inputs and every template answer of Init.  What no
\* step of the loop reads is kept to one value: the lesion mask file, when
\* there is one, is in canonical orientation, and a failing registration
\* leaves both of its streams.
LiveInit ==
    /\ Init
    /\ disk["lesion_mask"].canonical
    /\ reg_streams = AllStreams

LiveSpec == LiveInit /\ [][Next]_vars /\ WF_vars(RunStep) /\ ResolveReturns

----------------------------------------------------------------------------
\* The mask algebra on its own: mask and create_cfm applied to files of any
\* content.  Masks and lesion masks are stored as unsigned 8-bit integers.

ImageValues == {0, 3, 4}
MaskValues == {0, 1, 2}
LesionValues == {0, 1, 255}

AlgebraInit ==
    /\ \E img \in [Vox -> ImageValues], m \in [Vox -> MaskValues],
          l \in [Vox -> LesionValues], canonical \in BOOLEAN :
          disk = [InitialDisk(InputFile(m, TRUE), NoFile, NoFile, InputFile(l, canonical))
                    EXCEPT !["moving_image"] = InputFile(img, TRUE)]
    /\ inputs = [in_file |-> "moving_image", mask_file |-> "moving_mask",
                 lesion_mask |-> "lesion_mask"]
    /\ diag_files = {}
    /\ command_txt = NoCommandFile
    /\ pc = "algebra"
    /\ settings_files = <<>>
    /\ idx = 1
    /\ ants_args = EmptyArgs
    /\ norm = NoNorm
    /\ retry = 1
    /\ reference_image = None
    /\ calls = <<>>
    /\ err = NoException
    /\ result = NoResult
    /\ runs = 1
    /\ templateflow = NotAsked
    /\ written = {}
    /\ reg_streams = {}

\* mask(in_file, mask_file, 'moving_masked.nii.gz')
ApplyMask ==
    /\ pc = "algebra"
    /\ LET r == mask(disk, inputs.in_file, inputs.mask_file, "moving_masked") IN
         /\ disk' = r.disk
         /\ calls' = Append(calls, [tool |-> "mask", in_file |-> inputs.in_file,
                                    mask_file |-> inputs.mask_file, err |-> r.err,
                                    path |-> r.path, before |-> disk])
    /\ pc' = "masked"
    /\ UNCHANGED <<inputs, diag_files, command_txt, settings_files, idx, ants_args, norm,
                   retry, reference_image, err, result, runs, templateflow, written,
                   reg_streams>>

\* mask(<the masked image>, mask_file, 'fixed_masked.nii.gz')
ApplyMaskAgain ==
    /\ pc = "masked"
    /\ LET r == mask(disk, "moving_masked", inputs.mask_file, "fixed_masked") IN
         /\ disk' = r.disk
         /\ calls' = Append(calls, [tool |-> "mask", in_file |-> "moving_masked",
                                    mask_file |-> inputs.mask_file, err |-> r.err,
                                    path |-> r.path, before |-> disk])
    /\ pc' = "remasked"
    /\ UNCHANGED <<inputs, diag_files, command_txt, settings_files, idx, ants_args, norm,
                   retry, reference_image, err, result, runs, templateflow, written,
                   reg_streams>>

\* create_cfm(in_file, lesion_mask=..., global_mask=...)
BuildCfm ==
    /\ pc = "algebra"
    /\ \E in_file \in {inputs.in_file, inputs.mask_file},
          lesion_mask \in {None, inputs.lesion_mask}, global_mask \in BOOLEAN :
          LET r == create_cfm(disk, in_file, lesion_mask, global_mask) IN
          /\ disk' = r.disk
          /\ calls' = Append(calls, [tool |-> "create_cfm", in_file |-> in_file,
                                     lesion_mask |-> lesion_mask,
                                     global_mask |-> global_mask, err |-> r.err,
                                     path |-> r.path, before |-> disk])
    /\ pc' = "cfm"
    /\ UNCHANGED <<inputs, diag_files, command_txt, settings_files, idx, ants_args, norm,
                   retry, reference_image, err, result, runs, templateflow, written,
                   reg_streams>>

AlgebraNext ==
    \/ ApplyMask
    \/ ApplyMaskAgain
    \/ BuildCfm

AlgebraSpec == AlgebraInit /\ [][AlgebraNext]_vars

----------------------------------------------------------------------------
\* Properties

\* The registration attempts of the current run, in order
RegCalls == SelectSeq(calls, LAMBDA c : c.tool = "Registration")

FailedAttempts == {i \in 1..Len(RegCalls) : RegCalls[i].returncode # 0}

\* _get_ants_args has returned the argument bundle of the current run
Resolved == ants_args.moving_image # Absent

\* C1: the attempts of a run follow the settings list in its order, one per
\* settings file, and an attempt that returns exit status zero is the last
\* one: the method has returned and no later settings file is ever started.
C1_FirstSuccessStops ==
    /\ Len(RegCalls) <= Len(settings_files)
    /\ \A i \in 1..Len(RegCalls) : RegCalls[i].from_file = settings_files[i]
    /\ \A k \in 1..Len(RegCalls) :
          RegCalls[k].returncode = 0 => k = Len(RegCalls) /\ pc = "returned"
    /\ pc = "run" => idx = Len(RegCalls) + 1 /\ norm.from_file = settings_files[idx]

\* C1 witness: the first of two settings files succeeds, the second is skipped.
C1_Witness ==
    /\ pc = "returned"
    /\ Len(settings_files) = 2
    /\ Len(RegCalls) = 1
    /\ RegCalls[1].returncode = 0

\* C2: when the run ends with the exhaustion error, every one of the N
\* settings files was tried and failed, and the error reports exactly N.
C2_ExhaustionReportsN ==
    (pc = "raised" /\ err.kind = "RuntimeError") =>
        /\ Len(RegCalls) = Len(settings_files)
        /\ FailedAttempts = 1..Len(settings_files)
        /\ err.retries = Len(settings_files)

\* Zero-padded 4-digit index of the i-th attempt of a run
ExpectedTag(i) ==
    <<"0001", "0002", "0003", "0004", "0005", "0006", "0007", "0008", "0009">>[i]

IndexedFiles(i, streams) == {st \o ".nipype-" \o ExpectedTag(i) : st \in streams}

InitFiles == {st \o ".nipype-init" : st \in AllStreams}

\* C3: the streams of every failed attempt i of the run are on disk, tagged
\* with the 4-digit index i, from that attempt on; the indexed files the run
\* has written are exactly those of its failed attempts (none is written for
\* a successful attempt).
C3_DiagnosticsTaggedByAttempt ==
    /\ \A i \in FailedAttempts : IndexedFiles(i, RegCalls[i].streams) \subseteq diag_files
    /\ written \ InitFiles =
          UNION {IndexedFiles(i, RegCalls[i].streams) : i \in FailedAttempts}

\* C4: the method has returned normally exactly when a registration attempt
\* of the run reported exit status zero; a run that has ended otherwise has
\* raised an error.
C4_ReturnIffSuccess ==
    /\ pc \in {"start", "init", "loop", "run", "returned", "raised"}
    /\ pc = "returned" <=> \E i \in 1..Len(RegCalls) : RegCalls[i].returncode = 0
    /\ pc = "returned" => err = NoException
    /\ pc = "raised" <=> err.kind # NoErr

\* C4 witness: a normal return after a failed and then a successful attempt.
C4_Witness ==
    /\ pc = "returned"
    /\ Len(RegCalls) = 2
    /\ RegCalls[1].returncode # 0
    /\ RegCalls[2].returncode = 0

\* The reference image the job uses: the one supplied, else the path the
\* template resolves to
UsedReference ==
    IF inputs.reference_image # Undefined
    THEN inputs.reference_image
    ELSE templateflow.ref_template

\* C5: from the end of input resolution on, self._reference_image is the
\* supplied reference image or else the template-resolved path, and that is
\* the reference_image of the result, whichever attempt succeeds.
C5_ReferenceImageReported ==
    /\ pc \in {"init", "loop", "run", "returned"} => reference_image = UsedReference
    /\ pc = "returned" => result.reference_image = UsedReference

\* C5 witness: a template-resolved reference, reported after the second
\* attempt succeeded.
C5_Witness ==
    /\ pc = "returned"
    /\ inputs.reference_image = Undefined
    /\ Len(RegCalls) = 2
    /\ result.reference_image = "tpl_ref"

\* The path of the template's brain mask, as the lookups answered
BrainMaskPath ==
    IF templateflow.brain = "desc" THEN "tpl_desc-brain_mask" ELSE "tpl_label-brain_mask"

\* path holds in_file with the voxels outside mask_file set to zero
IsMaskedImage(path, in_file, mask_file) ==
    /\ disk[path].exists
    /\ disk[path].made = Made("mask", in_file, mask_file, FALSE)
    /\ \A i \in Vox :
          disk[path].data[i] =
              IF disk[mask_file].data[i] = 0 THEN 0 ELSE disk[in_file].data[i]

\* path holds the cost-function mask that create_cfm(in_file, lesion,
\* global_mask) builds: outside the lesion it is the base mask
IsCfm(path, in_file, lesion, global_mask) ==
    /\ path = CfmPath(in_file)
    /\ disk[path].exists
    /\ disk[path].made = Made("create_cfm", in_file, lesion, global_mask)
    /\ \A i \in Vox :
          (lesion = None \/ as_closest_canonical(disk[lesion])[i] = 0) =>
              disk[path].data[i] = IF global_mask THEN 1 ELSE disk[in_file].data[i]

\* The single-preset scenario: no masks, no reference image, explicit
\* masking, one settings file, and the run has returned.
Scenario6 ==
    /\ pc = "returned"
    /\ inputs.moving_mask = Undefined
    /\ inputs.reference_mask = Undefined
    /\ inputs.lesion_mask = Undefined
    /\ inputs.reference_image = Undefined
    /\ inputs.explicit_masking
    /\ inputs.settings.defined
    /\ Len(inputs.settings.files) = 1

Scenario6Engine ==
    /\ Len(RegCalls) = 1
    /\ RegCalls[1].returncode = 0
    /\ RegCalls[1].fixed_image = "fixed_masked"
    /\ IsMaskedImage("fixed_masked", templateflow.ref_template, BrainMaskPath)
    /\ RegCalls[1].fixed_image_masks = Absent
    /\ RegCalls[1].moving_image = inputs.moving_image
    /\ disk[inputs.moving_image].made.fn = "input"

\* C6 as stated: in the scenario the engine gets the masked template, no
\* fixed mask and the unmasked moving image, in one attempt, and the result
\* reports the masked template (the fixed image that was used).
C6_ScenarioReportsMaskedTemplate ==
    Scenario6 =>
        /\ Scenario6Engine
        /\ result.reference_image = RegCalls[1].fixed_image

\* C6 as amended: in the scenario the engine gets the masked template, no
\* fixed mask and the unmasked moving image, in one attempt, and the result
\* reports the template-resolved path, not the masked file.
C6_ScenarioReportsTemplate ==
    Scenario6 =>
        /\ Scenario6Engine
        /\ result.reference_image = templateflow.ref_template
        /\ result.reference_image # RegCalls[1].fixed_image

\* C6 witness: the scenario, on the first run of the interface.
C6_Witness == Scenario6 /\ runs = 1 /\ templateflow.brain = "desc"

\* The truth table of one side: with a mask, explicit masking masks the
\* image and its absence passes the mask; a lesion turns the mask argument
\* into a cost-function mask.
SideTable(image_in, mask_in, img, arg, masked_name) ==
    LET has_mask == mask_in # Undefined
        has_lesion == inputs.lesion_mask # Undefined
        explicit == inputs.explicit_masking
        Masked == img = masked_name /\ IsMaskedImage(masked_name, image_in, mask_in)
        Unmasked == img = image_in
    IN  CASE has_mask /\ explicit /\ has_lesion ->
                Masked /\ IsCfm(arg, mask_in, inputs.lesion_mask, TRUE)
          [] has_mask /\ explicit /\ ~has_lesion -> Masked /\ arg = Absent
          [] has_mask /\ ~explicit /\ has_lesion ->
                Unmasked /\ IsCfm(arg, mask_in, inputs.lesion_mask, FALSE)
          [] has_mask /\ ~explicit /\ ~has_lesion -> Unmasked /\ arg = mask_in
          [] ~has_mask /\ has_lesion ->
                Unmasked /\ IsCfm(arg, image_in, inputs.lesion_mask, TRUE)
          [] OTHER -> Unmasked /\ arg = Absent

\* C7: whenever input resolution returns, the moving image and the
\* moving-mask argument are those of the moving-side truth table, whatever
\* the reference-side inputs are.
C7_MovingSideTable ==
    Resolved =>
        SideTable(inputs.moving_image, inputs.moving_mask, ants_args.moving_image,
                  ants_args.moving_image_masks, "moving_masked")

\* C7 witness: moving mask and lesion without explicit masking, next to an
\* explicit reference image with its own mask.
C7_Witness ==
    /\ Resolved
    /\ inputs.moving_mask # Undefined
    /\ inputs.lesion_mask # Undefined
    /\ ~inputs.explicit_masking
    /\ inputs.reference_image # Undefined
    /\ inputs.reference_mask # Undefined
    /\ ants_args.moving_image_masks = "moving_mask_cfm"

\* C8: with an explicit reference image, the fixed image and the fixed-mask
\* argument are those of the same truth table, with reference_mask and the
\* reference image in the place of moving_mask and the moving image.
C8_ReferenceSideTable ==
    (Resolved /\ inputs.reference_image # Undefined) =>
        SideTable(inputs.reference_image, inputs.reference_mask, ants_args.fixed_image,
                  ants_args.fixed_image_masks, "fixed_masked")

\* The reference side builds a global-mask CFM because of a lesion mask
RefSideGlobalCfm ==
    /\ Resolved
    /\ inputs.lesion_mask # Undefined
    /\ \/ inputs.reference_image # Undefined /\ inputs.reference_mask = Undefined
       \/ inputs.reference_image = Undefined /\ inputs.explicit_masking

\* The image the reference-side CFM is shaped like
RefSideCfmInput ==
    IF inputs.reference_image # Undefined THEN inputs.reference_image ELSE BrainMaskPath

TemplateResolved ==
    /\ Resolved
    /\ inputs.reference_image = Undefined
    /\ templateflow.brain # "none"

\* C10: with a template-resolved reference, without explicit masking the
\* fixed image is the raw template and the fixed mask the template's brain
\* mask, for every lesion setting; with explicit masking and no lesion the
\* fixed image is the template masked by its brain mask and there is no
\* fixed-mask argument.
C10_TemplateBranch ==
    TemplateResolved =>
        IF ~inputs.explicit_masking
        THEN /\ ants_args.fixed_image = templateflow.ref_template
             /\ disk[ants_args.fixed_image].made.fn = "input"
             /\ ants_args.fixed_image_masks = BrainMaskPath
        ELSE inputs.lesion_mask = Undefined =>
                /\ ants_args.fixed_image = "fixed_masked"
                /\ IsMaskedImage("fixed_masked", templateflow.ref_template, BrainMaskPath)
                /\ ants_args.fixed_image_masks = Absent

\* C10 witness: no explicit masking, a lesion mask, the brain mask found by
\* the desc=brain lookup.
C10_Witness ==
    /\ TemplateResolved
    /\ ~inputs.explicit_masking
    /\ inputs.lesion_mask # Undefined
    /\ ants_args.fixed_image = "tpl_ref"
    /\ ants_args.fixed_image_masks = "tpl_desc-brain_mask"

\* The errors input resolution raises for a bad configuration
ConfigurationErrors == {"NotImplementedError", "ValueError"}

\* C11: a run that input resolution ends with a configuration error has
\* started no engine: neither the initializer nor a registration was called,
\* no stream file was written, no argument bundle was produced and the loop
\* was never entered.
C11_ConfigErrorBeforeEngine ==
    err.kind \in ConfigurationErrors =>
        /\ pc = "raised"
        /\ calls = <<>>
        /\ written = {}
        /\ idx = 1
        /\ ants_args = EmptyArgs

\* C11 witness: a non-binary moving mask used as the base of a cost-function
\* mask, in a job that has no initial transform and a settings file to try.
C11_Witness ==
    /\ pc = "raised"
    /\ err.kind = "ValueError"
    /\ inputs.moving_mask # Undefined
    /\ ~IsBinary(disk[inputs.moving_mask].data)
    /\ inputs.initial_moving_transform = Undefined
    /\ Len(settings_files) > 0

LastOp == calls[Len(calls)]

\* The base mask of the last create_cfm call: all ones, or the data of in_file
LastBase ==
    [i \in Vox |-> IF LastOp.global_mask THEN 1 ELSE LastOp.before[LastOp.in_file].data[i]]

\* The lesion of the last create_cfm call, in canonical orientation
LastLesion ==
    IF LastOp.before[LastOp.lesion_mask].canonical
    THEN LastOp.before[LastOp.lesion_mask].data
    ELSE [i \in Vox |-> LastOp.before[LastOp.lesion_mask].data[NVox + 1 - i]]

\* C13: a cost-function mask built with a lesion mask from a binary base
\* has, at every voxel, the value max(base - lesion, 0), which is 0 or 1:
\* never negative, never a wrapped-around value.
C13_CfmIsClampedDifference ==
    (pc = "cfm" /\ LastOp.err = NoErr /\ LastOp.lesion_mask # None) =>
        \A i \in Vox :
            /\ disk[LastOp.path].data[i] \in {0, 1}
            /\ disk[LastOp.path].data[i] =
                  IF LastBase[i] - LastLesion[i] > 0 THEN LastBase[i] - LastLesion[i] ELSE 0

\* C14: create_cfm raises its ValueError exactly when global_mask is false
\* and in_file holds a value other than 0 and 1, and then writes no file;
\* with global_mask it does not raise, and without a lesion mask the file it
\* writes is one at every voxel, whatever in_file holds.
C14_CfmRaisesIffNonBinaryBase ==
    pc = "cfm" =>
        /\ LastOp.err = "ValueError" <=>
              /\ ~LastOp.global_mask
              /\ \E i \in Vox : LastOp.before[LastOp.in_file].data[i] \notin {0, 1}
        /\ LastOp.err \in {NoErr, "ValueError"}
        /\ LastOp.err # NoErr =>
              /\ disk = LastOp.before
              /\ ~disk[CfmPath(LastOp.in_file)].exists
        /\ (LastOp.global_mask /\ LastOp.lesion_mask = None) =>
              /\ disk[LastOp.path].exists
              /\ \A i \in Vox : disk[LastOp.path].data[i] = 1

\* C14 witness: a non-binary mask as the base of a non-global mask.
C14_Witness ==
    /\ pc = "cfm"
    /\ LastOp.err = "ValueError"
    /\ LastOp.in_file = "moving_mask"
    /\ LastOp.lesion_mask # None

\* C15: with a binary mask, the masked image is zero where the mask is zero
\* and the input image elsewhere; the input image and the mask are left as
\* they were; masking the masked image again gives the same data.
C15_MaskZeroesOutsideIdempotent ==
    (pc \in {"masked", "remasked"}
        /\ \A i \in Vox : calls[1].before["moving_mask"].data[i] \in {0, 1}) =>
        /\ disk["moving_masked"].exists
        /\ \A i \in Vox :
              disk["moving_masked"].data[i] =
                  IF calls[1].before["moving_mask"].data[i] = 0
                  THEN 0 ELSE calls[1].before["moving_image"].data[i]
        /\ disk["moving_image"] = calls[1].before["moving_image"]
        /\ disk["moving_mask"] = calls[1].before["moving_mask"]
        /\ pc = "remasked" =>
              /\ disk["fixed_masked"].exists
              /\ disk["fixed_masked"].data = disk["moving_masked"].data

\* C15 witness: the mask was applied twice; it removes one voxel of the
\* image and keeps another.
C15_Witness ==
    /\ pc = "remasked"
    /\ disk["moving_mask"].data[1] = 1
    /\ disk["moving_mask"].data[NVox] = 0
    /\ disk["moving_image"].data[1] # 0
    /\ disk["moving_image"].data[NVox] # 0
    /\ disk["fixed_masked"].data[NVox] = 0

\* The positions of the initializer's invocations among the calls of the run
InitCalls == {i \in 1..Len(calls) : calls[i].tool = "AffineInitializer"}

\* C16: a job with an initial transform never starts the initializer and
\* every attempt gets the job's transform; a job without one starts the
\* initializer once, as the first engine call after input resolution, on the
\* resolved fixed and moving images, and every attempt gets the transform
\* the initializer wrote.
C16_InitializerIffNoTransform ==
    IF inputs.initial_moving_transform # Undefined
    THEN /\ InitCalls = {}
         /\ pc # "init"
         /\ \A i \in 1..Len(RegCalls) :
               RegCalls[i].initial_moving_transform = inputs.initial_moving_transform
    ELSE /\ InitCalls \subseteq {1}
         /\ (pc \in {"loop", "run", "returned"} \/ Len(RegCalls) > 0
               \/ err.kind \in {"RuntimeError", "TraitError", "InitializerError"})
               => InitCalls = {1}
         /\ pc \in {"start", "init"} => calls = <<>>
         /\ InitCalls = {1} =>
               /\ Resolved
               /\ calls[1].fixed_image = ants_args.fixed_image
               /\ calls[1].moving_image = ants_args.moving_image
               /\ calls[1].fixed_image \notin {Absent, Undefined}
         /\ \A i \in 1..Len(RegCalls) :
               RegCalls[i].initial_moving_transform = "init_out_file"

\* C16 witness: no initial transform, a masked moving image; the initializer
\* ran on it and two attempts followed.
C16_Witness ==
    /\ pc = "returned"
    /\ inputs.initial_moving_transform = Undefined
    /\ Len(calls) = 3
    /\ calls[1].tool = "AffineInitializer"
    /\ calls[1].moving_image = "moving_masked"
    /\ calls[3].initial_moving_transform = "init_out_file"

\* C17: while an attempt runs, command.txt holds its command line, every
\* earlier attempt of the run has returned a failure, and the stream files
\* of each of them were written under a tag of its own; once an attempt has
\* returned, command.txt still holds the command line of the last attempt
\* started (the successful one after a success).
C17_CommandFileOfLastStartedAttempt ==
    /\ pc = "run" =>
          /\ command_txt = norm
          /\ norm.args = ants_args
          /\ norm.from_file = settings_files[idx]
          /\ Len(RegCalls) = idx - 1
          /\ FailedAttempts = 1..(idx - 1)
    /\ (pc # "run" /\ Len(RegCalls) > 0) =>
          /\ command_txt = norm
          /\ command_txt.from_file = RegCalls[Len(RegCalls)].from_file
          /\ command_txt.args = ants_args
    /\ pc \in {"loop", "run", "returned", "raised"} =>
          Cardinality(written \ InitFiles) =
              Cardinality(reg_streams) * Cardinality(FailedAttempts)
    /\ pc = "loop" => idx = Len(RegCalls) + 1

\* C17 witness: the second attempt runs after the first one failed and left
\* its streams.
C17_Witness ==
    /\ pc = "run"
    /\ idx = 2
    /\ command_txt.from_file = settings_files[2]
    /\ RegCalls[1].returncode # 0
    /\ reg_streams # {}
    /\ written # {}

\* C18: at every point of the loop of a run, and once the run has ended,
\* the retry counter is 1 plus the number of failed attempts of that run.
C18_RetryCountsFailuresOfRun ==
    pc \in {"loop", "run", "returned", "raised"} =>
        retry = 1 + Cardinality(FailedAttempts)

\* The arguments of an engine call that do not come from the settings file
CommonArgs(c) ==
    [fixed_image |-> c.fixed_image, moving_image |-> c.moving_image,
     fixed_image_masks |-> c.fixed_image_masks,
     moving_image_masks |-> c.moving_image_masks,
     initial_moving_transform |-> c.initial_moving_transform,
     num_threads |-> c.num_threads, float |-> c.float]

\* C19: no attempt starts before input resolution has returned, and every
\* registration attempt of a run gets the argument bundle resolved for that
\* run: the same images, masks, initial transform, thread count and
\* precision flag, whatever its settings file is.
C19_SameArgumentsEveryAttempt ==
    /\ pc = "start" => calls = <<>>
    /\ Len(RegCalls) > 0 => Resolved
    /\ \A i \in 1..Len(RegCalls) :
          /\ CommonArgs(RegCalls[i]) = CommonArgs(ants_args)
          /\ RegCalls[i].num_threads = inputs.num_threads
          /\ RegCalls[i].float = inputs.float
    /\ pc = "run" => CommonArgs(norm.args) = CommonArgs(ants_args)

\* C19 witness: two attempts with different settings files, both with the
\* masked fixed image and a moving cost-function mask.
C19_Witness ==
    /\ Len(RegCalls) = 2
    /\ RegCalls[1].from_file # RegCalls[2].from_file
    /\ RegCalls[2].fixed_image = "fixed_masked"
    /\ RegCalls[2].moving_image_masks = "moving_image_cfm"

\* C20: no step of a run changes an input of the job: the template
\* specification, the moving image path and every other input keep the
\* value they had when the run started.
C20_InputsNeverMutated == [][inputs' = inputs]_vars

\* No reference image was supplied, the template was looked up, and the
\* template file does not exist or neither lookup found its brain mask
TemplateUnresolved ==
    /\ inputs.reference_image = Undefined
    /\ templateflow # NotAsked
    /\ \/ ~Exists(disk, templateflow.ref_template)
       \/ templateflow.brain = "none"

\* C21: when the template file or its brain mask cannot be resolved, input
\* resolution raises: the run has ended with an error, without an argument
\* bundle (no fixed image, no fixed mask) and without any engine call.
C21_UnresolvedTemplateFailsAtOnce ==
    (TemplateUnresolved /\ pc # "start") =>
        /\ pc = "raised"
        /\ ants_args = EmptyArgs
        /\ calls = <<>>

\* The run has ended
Terminal == pc \in {"returned", "raised"}

\* Each position of the settings list is attempted at most once, in order
EachPresetAtMostOnce ==
    /\ idx \in 1..(Len(settings_files) + 1)
    /\ Len(RegCalls) <= Len(settings_files)
    /\ Len(RegCalls) \in {idx - 1, idx}
    /\ \A i \in 1..Len(RegCalls) : RegCalls[i].from_file = settings_files[i]

\* The errors raised before the loop (lines 173-193): those of input
\* resolution and a failure of the initializer.  The loop's own errors are the
\* exhaustion RuntimeError and the TraitError of Registration(...), line 199.
ErrorsBeforeLoop == ConfigurationErrors \cup {"FileNotFoundError", "InitializerError"}

\* A run ends in exactly one way: with the success of its last attempt, with
\* the exhaustion error after every settings file failed, or with a fatal
\* error raised before the loop
EndsInOneWay ==
    Terminal =>
        \/ /\ pc = "returned"
           /\ err = NoException
           /\ Len(RegCalls) > 0
           /\ RegCalls[Len(RegCalls)].returncode = 0
        \/ /\ pc = "raised"
           /\ err.kind = "RuntimeError"
           /\ FailedAttempts = 1..Len(settings_files)
        \/ /\ pc = "raised"
           /\ err.kind \in ErrorsBeforeLoop
           /\ RegCalls = <<>>
           /\ idx = 1

\* Every run that has started ends
RunEventuallyEnds == ~Terminal ~> Terminal

\* C22: every run that has started ends, for every settings list, provided
\* the external calls return; it ends in exactly one way (success,
\* exhaustion, or a fatal error raised before the loop), and no position of
\* the settings list is attempted twice.
C22_RunTerminates ==
    /\ [](EachPresetAtMostOnce /\ EndsInOneWay)
    /\ RunEventuallyEnds

\* Input resolution of the current run has returned normally: the run is past
\* it and did not end with one of the errors resolution raises.
ResolutionReturned ==
    /\ pc # "start"
    /\ err.kind \in {NoErr, "RuntimeError", "TraitError", "InitializerError"}

\* The value of an argument is there: the key is in the bundle and is defined.
IsDefined(v) == v \notin {Absent, Undefined, None}

\* The job names a reference image and neither a reference nor a lesion mask.
BareReference ==
    /\ inputs.reference_image # Undefined
    /\ inputs.reference_mask = Undefined
    /\ inputs.lesion_mask = Undefined

\* C23: whenever input resolution has returned normally the argument bundle
\* holds a fixed and a moving image, whatever the optional inputs are, and the
\* initializer and every registration attempt were given that pair; with a
\* reference image and neither reference mask nor lesion mask the fixed image
\* is the reference image file as supplied, and there is no fixed mask.
C23_FixedMovingPairAlwaysDefined ==
    /\ ResolutionReturned =>
          /\ IsDefined(ants_args.fixed_image)
          /\ IsDefined(ants_args.moving_image)
    /\ \A i \in 1..Len(calls) :
          /\ IsDefined(calls[i].fixed_image)
          /\ IsDefined(calls[i].moving_image)
          /\ calls[i].fixed_image = ants_args.fixed_image
          /\ calls[i].moving_image = ants_args.moving_image
    /\ (ResolutionReturned /\ BareReference) =>
          /\ ants_args.fixed_image = inputs.reference_image
          /\ disk[ants_args.fixed_image].made.fn = "input"
          /\ ants_args.fixed_image_masks = Absent
          /\ \A i \in 1..Len(calls) : calls[i].fixed_image_masks = Absent

\* C23 witness: a job with a bare reference image whose initializer and a
\* registration attempt were both given the reference image and the moving image
C23_Witness ==
    /\ BareReference
    /\ Len(calls) >= 2
    /\ calls[1].tool = "AffineInitializer"
    /\ calls[2].tool = "Registration"
    /\ calls[2].fixed_image = "reference_image"
    /\ calls[2].moving_image = "moving_image"
====
